---- MODULE Spec2Model ----
(***************************************************************************)
(* Model of Log::Logger (src/logger.h, the revision of lines 1-296; the    *)
(* second copy in the file sits behind the same include guard and is never *)
(* compiled).                                                              *)
(*                                                                         *)
(* A file is a sequence of characters (one-character strings).  The file   *)
(* system maps a path <<directory, suffix>> to a file: suffix 0 is the     *)
(* active file  <fileName>.<ext>,  suffix t > 0 the file rotated at        *)
(* timestamp t.  File contents are the bytes written through the stream;   *)
(* every log call ends with a flush, every close flushes.                  *)
(***************************************************************************)
EXTENDS Integers, Sequences, FiniteSets, TLC

VARIABLES
    fs,       \* the files: [path -> sequence of characters], DOMAIN = existing files
    dirs,     \* the existing directories
    now,      \* the wall clock at the resolution of current_time() (seconds)
    inst,     \* the function-local static of getInstance: "none", "live", "destroyed"
    lg,       \* the Logger object's members (file handle included)
    init_mtx, \* getInstance's static init_mtx: 0 when free, else the thread holding it
    mtx,      \* Logger::mtx: 0 when free, else the thread holding it
    pc,       \* per caller thread: the position inside log / setLogDirectory
    loc,      \* per caller thread: the arguments of the call in progress
    hist,     \* history of this writer's lifetime (observation only)
    last      \* the last operation and how it ended (observation only)

vars == <<fs, dirs, now, inst, init_mtx, lg, mtx, pc, loc, hist, last>>

---------------------------------------------------------------------------
(* Bounds of the model *)
MaxTime == 2       \* clock values 1..MaxTime
MaxCalls == 3      \* log calls made by the caller
MaxLives == 2      \* processes started (getInstance constructions attempted)
MaxMoves == 1      \* setLogDirectory calls made by the caller
MaxFaults == 2     \* calls during which a system call fails
BytesPerMB == 22   \* the model's megabyte (the code's 1024 * 1024), in characters
MaxMsgLen == 3     \* characters of a message whose escaping is examined

Threads == {1, 2, 3}
CWD == "."
DefaultDir == "../logs"
LogDirs == {"", "d1"}              \* values of the dir argument
Formats == {"JSON", "TXT"}
MaxMBs == {0, 1}
InitMsg == <<"I">>                 \* "Logger initialized"
DirMsg == <<"D">>                  \* "Successfully created directory: ..."
\* the message of the caller's k-th log call: each one different
MsgOf(k) == <<CASE k = 1 -> "a" [] k = 2 -> "]" [] k = 3 -> "\"" [] OTHER -> "z">>
ThreadMsg(t) == <<CASE t = 1 -> "a" [] t = 2 -> "b" [] OTHER -> "c">>
\* the characters a message is made of
EscChars ==
    {"\"", "\\", "\n", "\t", "CR", "BS", "FF", "SOH", "US", "DEL",
     "]", "a", "n", "u", "<", ">", "&"}
\* the messages of at most MaxMsgLen characters
Messages == UNION {[1..n -> EscChars] : n \in 0..MaxMsgLen}

\* which system calls fail during one call of the program
NoFault == [openw |-> FALSE, openr |-> FALSE, rename |-> FALSE, mkdir |-> FALSE]
Faults == {NoFault,
           [NoFault EXCEPT !.openw = TRUE], [NoFault EXCEPT !.openr = TRUE],
           [NoFault EXCEPT !.rename = TRUE], [NoFault EXCEPT !.mkdir = TRUE]}

---------------------------------------------------------------------------
(* The file system and the stream *)

Last(s) == s[Len(s)]

\* the function f extended or overwritten at p
Store(f, p, c) == [q \in (DOMAIN f) \cup {p} |-> IF q = p THEN c ELSE f[q]]
Remove(f, p) == [q \in (DOMAIN f) \ {p} |-> f[q]]

\* A world is what a member function reads and changes: the files, the
\* directories, the object, and whether an exception is propagating.
\* h is the history record: the member functions note in it what they did.
World(f, d, l, h) == [fs |-> f, dirs |-> d, lg |-> l, exc |-> FALSE, h |-> h]

Throw(w) == [w EXCEPT !.exc = TRUE]

\* file << bytes: nothing is written through a closed stream
Put(w, bytes) ==
    IF w.lg.open /\ w.lg.hpath \in DOMAIN w.fs
    THEN [w EXCEPT !.fs = Store(w.fs, w.lg.hpath, w.fs[w.lg.hpath] \o bytes)]
    ELSE w

\* file.close()
Close(w) == [w EXCEPT !.lg.open = FALSE]

\* file.open(p, out | app): creates the file when absent; every write goes to the end
OpenApp(w, p, flt) ==
    IF w.lg.open \/ flt.openw \/ p[1] \notin w.dirs
    THEN w
    ELSE [w EXCEPT !.fs = IF p \in DOMAIN w.fs THEN w.fs ELSE Store(w.fs, p, <<>>),
                   !.lg.open = TRUE,
                   !.lg.hpath = p]

\* file.open(p, out | trunc)
OpenTrunc(w, p, flt) ==
    IF w.lg.open \/ flt.openw \/ p[1] \notin w.dirs
    THEN w
    ELSE [w EXCEPT !.fs = Store(w.fs, p, <<>>),
                   !.lg.open = TRUE,
                   !.lg.hpath = p]

---------------------------------------------------------------------------
(* The member functions *)

\* A character is a one-character string; the control characters that TLA+
\* strings cannot hold are written by their ASCII names.  Code(c) is the value
\* of static_cast<unsigned char>(c); every other character is printable.
ControlChars == {"SOH", "BS", "\t", "\n", "FF", "CR", "US", "DEL"}

ControlCode ==
    [c \in ControlChars |->
        CASE c = "SOH" -> 1   [] c = "BS" -> 8    [] c = "\t" -> 9   [] c = "\n" -> 10
          [] c = "FF" -> 12   [] c = "CR" -> 13   [] c = "US" -> 31  [] c = "DEL" -> 127]

Code(c) == IF c \in ControlChars THEN ControlCode[c] ELSE 97

HexDigit(d) ==
    <<"0", "1", "2", "3", "4", "5", "6", "7", "8", "9", "a", "b", "c", "d", "e", "f">>[d + 1]

\* std::hex << std::setw(4) << std::setfill('0') << n, for 0 <= n < 65536
Hex4(n) ==
    <<HexDigit(n \div 4096), HexDigit((n \div 256) % 16),
      HexDigit((n \div 16) % 16), HexDigit(n % 16)>>

\* escape_json, lines 46-52: the cases of the switch, each character with the
\* letter that follows the backslash
EscapedChars == {"\"", "\\", "BS", "FF", "\n", "CR", "\t"}

EscapeLetter ==
    [c \in EscapedChars |->
        CASE c = "\"" -> "\""  [] c = "\\" -> "\\"  [] c = "BS" -> "b"  [] c = "FF" -> "f"
          [] c = "\n" -> "n"   [] c = "CR" -> "r"    [] c = "\t" -> "t"]

\* escape_json, lines 53-57: the default case
escapeDefault(c) ==
    IF Code(c) < 32 \/ Code(c) = 127 THEN <<"\\", "u">> \o Hex4(Code(c)) ELSE <<c>>

RECURSIVE escape_jsonKeepsBackslash(_)
escape_jsonKeepsBackslash(input) ==
    IF input = <<>> THEN <<>>
    ELSE LET c == Head(input)
         IN  (IF c \in EscapedChars /\ c # "\\" THEN <<"\\", EscapeLetter[c]>>
              ELSE escapeDefault(c))
             \o escape_jsonKeepsBackslash(Tail(input))

RECURSIVE escape_json(_)
escape_json(input) ==
    IF input = <<>> THEN <<>>
    ELSE LET c == Head(input)
         IN  (IF c \in EscapedChars THEN <<"\\", EscapeLetter[c]>>
              ELSE escapeDefault(c))
             \o escape_json(Tail(input))

getFullPath(l) ==
    IF l.logDirectory = "" THEN <<CWD, 0>> ELSE <<l.logDirectory, 0>>

\* the record's timestamp and log_type fields hold no structural character
\* and are left out of the text
serialize(l, msg) ==
    CASE l.format = "TXT"  -> <<"T">> \o msg
      [] l.format = "CSV"  -> <<"C", "\"">> \o escape_json(msg) \o <<"\"">>
      [] l.format = "JSON" -> <<"{", "\"">> \o escape_json(msg) \o <<"\"", "}">>
      [] l.format = "XML"  -> <<"<">> \o escape_json(msg) \o <<">">>

SetEnvelope(w, first) ==
    [w EXCEPT !.lg.firstJsonEntry = first, !.lg.jsonArrayStarted = TRUE]

\* openFile, lines 145-147: the envelope of a fresh file
FreshEnvelopeKeepsFlag(w) ==
    [Put(w, <<"[", "\n">>) EXCEPT !.lg.jsonArrayStarted = TRUE]

FreshEnvelope(w) == SetEnvelope(Put(w, <<"[", "\n">>), TRUE)

\* openFile resuming an unterminated array instead of restarting the file
openFileResume(w, flt) ==
    LET filePath == getFullPath(w.lg)
        fileExists == filePath \in DOMAIN w.fs
        w1 == OpenApp(w, filePath, flt)
    IN  IF ~w1.lg.open THEN Throw(w1)
        ELSE IF w1.lg.format # "JSON" THEN w1
        ELSE IF ~fileExists \/ Len(w1.fs[filePath]) = 0
             THEN FreshEnvelope(w1)
        ELSE LET w2 == Close(w1)
             IN  IF flt.openr THEN w2
                 ELSE LET lastChar == Last(w2.fs[filePath])
                          w3 == OpenApp(w2, filePath, flt)
                      IN  IF lastChar = "]"
                          THEN SetEnvelope(Put(w3, <<",">>), FALSE)
                          ELSE SetEnvelope(w3, FALSE)

openFile(w, flt) ==
    LET filePath == getFullPath(w.lg)
        fileExists == filePath \in DOMAIN w.fs
        w1 == OpenApp(w, filePath, flt)
    IN  IF ~w1.lg.open THEN Throw(w1)
        ELSE IF w1.lg.format # "JSON" THEN w1
        ELSE IF ~fileExists \/ Len(w1.fs[filePath]) = 0
             THEN FreshEnvelope(w1)
        ELSE LET w2 == Close(w1)
             IN  IF flt.openr THEN w2     \* inFile did not open: the stream stays closed
                 ELSE LET lastChar == Last(w2.fs[filePath])
                          w3 == OpenApp(w2, filePath, flt)
                      IN  IF lastChar = "]"
                          \* seekp(-1, end) has no effect on a stream opened with app
                          THEN SetEnvelope(Put(w3, <<",">>), FALSE)
                          ELSE SetEnvelope(
                                 Put(OpenTrunc(Close(w3), filePath, flt), <<"[", "\n">>),
                                 TRUE)

\* std::filesystem::rename(from, to): an existing target is replaced
Rename(w, from, to) ==
    [w EXCEPT !.fs = Remove(Store(w.fs, to, w.fs[from]), from)]

rotate_if_neededAbove(w, flt, ts) ==
    IF ~w.lg.open THEN w
    ELSE LET path == getFullPath(w.lg)
         IN  IF path \in DOMAIN w.fs /\ Len(w.fs[path]) > w.lg.maxSizeBytes
             THEN LET w1 == Close([w EXCEPT !.h.rotations = @ + 1])
                  IN  IF flt.rename THEN Throw(w1)
                      ELSE openFile(Rename(w1, path, <<path[1], ts>>), flt)
             ELSE w

rotate_if_needed(w, flt, ts) ==
    IF ~w.lg.open THEN w
    ELSE LET path == getFullPath(w.lg)
         IN  IF path \in DOMAIN w.fs /\ Len(w.fs[path]) >= w.lg.maxSizeBytes
             THEN LET w1 == Close([w EXCEPT !.h.rotations = @ + 1])
                  IN  IF flt.rename THEN Throw(w1)
                      ELSE openFile(Rename(w1, path, <<path[1], ts>>), flt)
             ELSE w

\* log, lines 228-232: the rotation check and the reopen
logPrepare(w, flt, ts) ==
    LET w1 == rotate_if_needed(w, flt, ts)
    IN  IF w1.exc THEN w1
        ELSE IF ~w1.lg.open THEN openFile(w1, flt)
        ELSE w1

logSeparatorAlways(w) ==
    IF w.lg.open /\ w.lg.format = "JSON"
    THEN [Put(w, <<",", "\n">>) EXCEPT !.lg.firstJsonEntry = FALSE]
    ELSE w

\* log, lines 234-241: the separator
logSeparator(w) ==
    IF w.lg.open /\ w.lg.format = "JSON"
    THEN IF ~w.lg.firstJsonEntry THEN Put(w, <<",", "\n">>)
         ELSE [w EXCEPT !.lg.firstJsonEntry = FALSE]
    ELSE w

logRecordBare(w, msg) ==
    IF w.lg.open THEN Put(w, serialize(w.lg, msg)) ELSE [w EXCEPT !.h.dropped = TRUE]

\* log, lines 243-249: the record
logRecord(w, msg) ==
    IF w.lg.open
    THEN LET w1 == Put(w, serialize(w.lg, msg))
             w2 == IF w.lg.format # "JSON" THEN Put(w1, <<"\n">>) ELSE w1
         IN  w2
    ELSE [w EXCEPT !.h.dropped = TRUE]

\* log, line 227: the call holds the mutex; the history notes the call
Called(w, msg) == [w EXCEPT !.h.called = Append(@, msg)]

\* log, the whole call
logBody(w, msg, flt, ts) ==
    LET w1 == logPrepare(Called(w, msg), flt, ts)
    IN  IF w1.exc THEN w1 ELSE logRecord(logSeparator(w1), msg)

\* create_directories(dir) fails: a fault, or the empty path (invalid argument)
MkdirFails(dir, flt) == flt.mkdir \/ dir = ""

\* the object before the constructor body: the member initializers
Members(fmt, maxMB, dbg, dir) ==
    [format |-> fmt, debugMode |-> dbg, maxSizeBytes |-> maxMB * BytesPerMB,
     logDirectory |-> dir, firstJsonEntry |-> TRUE, dirCreated |-> FALSE,
     jsonArrayStarted |-> FALSE, open |-> FALSE, hpath |-> <<CWD, 0>>]

\* Logger::Logger
Logger(w0, fmt, maxMB, dbg, dir, flt, ts) ==
    LET w == [w0 EXCEPT !.lg = Members(fmt, maxMB, dbg, dir)]
        dirPath == IF dir = "" THEN DefaultDir ELSE dir
        w1 == IF dirPath \notin w.dirs
              THEN IF MkdirFails(dirPath, flt) THEN Throw(w)
                   ELSE [w EXCEPT !.dirs = @ \cup {dirPath}, !.lg.dirCreated = TRUE]
              ELSE w
        w2 == IF w1.exc THEN w1 ELSE openFile(w1, flt)
        w3 == IF w2.exc \/ ~w2.lg.dirCreated THEN w2 ELSE logBody(w2, DirMsg, flt, ts)
        w4 == IF w3.exc THEN w3 ELSE logBody(w3, InitMsg, flt, ts)
    IN  w4

CloseUnfinalized(w) == IF w.lg.open THEN Close(w) ELSE w

\* the finalization shared by setLogDirectory (268-273) and ~Logger (286-291)
Finalize(w) ==
    IF w.lg.open
    THEN Close(IF w.lg.format = "JSON" /\ w.lg.jsonArrayStarted
               THEN Put(w, <<"\n", "]">>) ELSE w)
    ELSE w

\* setLogDirectory, lines 266-273
setDirClose(w, dir) ==
    Finalize([w EXCEPT !.lg.logDirectory = dir, !.h.moves = @ + 1])

\* setLogDirectory, lines 275-280
setDirOpen(w, dir, flt) ==
    LET w1 == IF dir \notin w.dirs
              THEN IF MkdirFails(dir, flt) THEN Throw(w)
                   ELSE [w EXCEPT !.dirs = @ \cup {dir}]
              ELSE w
    IN  IF w1.exc THEN w1 ELSE openFile(w1, flt)

setLogDirectory(w, dir, flt) ==
    IF w.lg.logDirectory # dir THEN setDirOpen(setDirClose(w, dir), dir, flt) ELSE w

\* Logger::~Logger
DtorLogger(w) == Finalize(w)

---------------------------------------------------------------------------
(* The sequential specification: one caller, every public operation one step *)

\* lives, calls, moves and faults count over the whole behaviour; rotations, called,
\* existed and start are of the lifetime of one writer; dropped says that a log
\* call of the last operation returned without writing; order lists the threads
\* in the order in which their calls acquired the mutex
NewHist(h, existed, content) ==
    [lives |-> h.lives + 1, calls |-> h.calls, moves |-> h.moves,
     faults |-> h.faults, rotations |-> 0, dropped |-> FALSE, called |-> <<>>,
     order |-> <<>>, existed |-> existed, start |-> content]

ZeroHist ==
    [lives |-> 0, calls |-> 0, moves |-> 0, faults |-> 0, rotations |-> 0,
     dropped |-> FALSE, called |-> <<>>, order |-> <<>>, existed |-> FALSE,
     start |-> <<>>]

Ended(op, outcome) == [op |-> op, outcome |-> outcome]

\* files an earlier run, a crash or an editor may have left at the active path
InitContents(fmt) ==
    IF fmt = "JSON"
    THEN {<<>>,
          <<"[", "\n", "{", "\"", "x", "\"", "}">>,
          <<"[", "\n", "{", "\"", "x", "\"", "}", "\n", "]", "\n">>}
    ELSE {<<>>, <<"T", "x", "\n">>}

InitFiles(fmt) ==
    {<<>>} \cup {Store(<<>>, <<CWD, 0>>, c) : c \in InitContents(fmt)}

IdleThreads ==
    /\ init_mtx = 0
    /\ mtx = 0
    /\ pc = [t \in Threads |-> "idle"]
    /\ loc = [t \in Threads |-> <<>>]

Init ==
    \* the program is started with the same format and size limit every time
    /\ \E fmt \in Formats, maxMB \in MaxMBs :
         /\ fs \in InitFiles(fmt)
         /\ lg = Members(fmt, maxMB, FALSE, "")
    /\ dirs = {CWD}
    /\ now = 1
    /\ inst = "none"
    /\ IdleThreads
    /\ hist = ZeroHist
    /\ last = Ended("start", "ok")

Outcome(w) ==
    IF w.exc THEN "threw" ELSE IF w.h.dropped THEN "dropped" ELSE "ok"

\* the history at the start of a call with faults flt
Enter(h, flt) ==
    [h EXCEPT !.dropped = FALSE, !.faults = IF flt = NoFault THEN @ ELSE @ + 1]

FaultsFor(h) == IF h.faults < MaxFaults THEN Faults ELSE {NoFault}

\* getInstance, first call of a process: the static is constructed
GetInstance(dbg, dir, flt) ==
    /\ inst # "live"
    /\ hist.lives < MaxLives
    /\ LET maxMB == lg.maxSizeBytes \div BytesPerMB
           p == getFullPath(Members(lg.format, maxMB, dbg, dir))
           h == NewHist(Enter(hist, flt), p \in DOMAIN fs,
                        IF p \in DOMAIN fs THEN fs[p] ELSE <<>>)
           w == Logger(World(fs, dirs, lg, h), lg.format, maxMB, dbg, dir, flt, now)
       IN  /\ fs' = w.fs
           /\ dirs' = w.dirs
           /\ hist' = w.h
           /\ IF w.exc
              \* the members are destroyed, the static stays unconstructed
              THEN /\ inst' = "none"
                   /\ lg' = Members(lg.format, lg.maxSizeBytes \div BytesPerMB, FALSE, "")
                   /\ last' = Ended("getInstance", "threw")
              ELSE /\ inst' = "live"
                   /\ lg' = w.lg
                   /\ last' = Ended("getInstance", Outcome(w))
    /\ UNCHANGED <<now, mtx, pc, loc, init_mtx>>

Log(flt) ==
    /\ inst = "live"
    /\ hist.calls < MaxCalls
    /\ LET h == [Enter(hist, flt) EXCEPT !.calls = @ + 1]
           w == logBody(World(fs, dirs, lg, h), MsgOf(h.calls), flt, now)
       IN  /\ fs' = w.fs
           /\ dirs' = w.dirs
           /\ lg' = w.lg
           /\ hist' = w.h
           /\ last' = Ended("log", Outcome(w))
    /\ UNCHANGED <<now, inst, mtx, pc, loc, init_mtx>>

SetLogDirectory(dir, flt) ==
    /\ inst = "live"
    /\ hist.moves < MaxMoves
    /\ LET w == setLogDirectory(World(fs, dirs, lg, Enter(hist, flt)), dir, flt)
       IN  /\ fs' = w.fs
           /\ dirs' = w.dirs
           /\ lg' = w.lg
           /\ hist' = w.h
           /\ last' = Ended("setLogDirectory", Outcome(w))
    /\ UNCHANGED <<now, inst, mtx, pc, loc, init_mtx>>

\* normal process exit: the static's destructor runs
Exit ==
    /\ inst = "live"
    /\ LET w == DtorLogger(World(fs, dirs, lg, hist))
       IN  /\ fs' = w.fs
           /\ lg' = w.lg
    /\ inst' = "destroyed"
    /\ last' = Ended("exit", "ok")
    /\ UNCHANGED <<dirs, now, mtx, pc, loc, hist, init_mtx>>

Tick ==
    /\ now < MaxTime
    /\ now' = now + 1
    /\ last' = Ended("tick", "ok")
    /\ UNCHANGED <<fs, dirs, inst, lg, mtx, pc, loc, hist, init_mtx>>

\* one step of the caller or of the clock, the system calls failing as in F
Calls(F) ==
    \/ \E dir \in LogDirs, flt \in F : GetInstance(FALSE, dir, flt)
    \/ \E flt \in F : Log(flt)
    \/ \E dir \in LogDirs, flt \in F : SetLogDirectory(dir, flt)
    \/ Exit
    \/ Tick

Next == Calls(FaultsFor(hist))

Spec == Init /\ [][Next]_vars

\* the same program on a system whose calls all succeed
QuietNext == Calls({NoFault})

QuietSpec == Init /\ [][QuietNext]_vars

\* the program started with one of the formats that have no envelope
PlainFormats == {"TXT", "CSV", "XML"}

PlainInit ==
    /\ \E fmt \in PlainFormats, maxMB \in MaxMBs :
         /\ fs \in InitFiles(fmt)
         /\ lg = Members(fmt, maxMB, FALSE, "")
    /\ dirs = {CWD}
    /\ now = 1
    /\ inst = "none"
    /\ IdleThreads
    /\ hist = ZeroHist
    /\ last = Ended("start", "ok")

PlainSpec == PlainInit /\ [][QuietNext]_vars

---------------------------------------------------------------------------
(* The serializer's escaping: a writer of a format whose record embeds the  *)
(* escaped message is constructed on an absent file and the caller logs one *)
(* message, any of Messages.                                                *)

EscInit ==
    /\ \E fmt \in {"JSON", "XML"} :
         LET w == Logger(World(<<>>, {CWD}, Members(fmt, 1, FALSE, ""),
                               NewHist(ZeroHist, FALSE, <<>>)),
                         fmt, 1, FALSE, "", NoFault, 1)
         IN  /\ fs = w.fs
             /\ dirs = w.dirs
             /\ lg = w.lg
             /\ hist = w.h
    /\ now = 1
    /\ inst = "live"
    /\ IdleThreads
    /\ last = Ended("getInstance", "ok")

\* log(m, type), the caller's first call
EscLog(m) ==
    /\ inst = "live"
    /\ hist.calls = 0
    /\ LET h == [Enter(hist, NoFault) EXCEPT !.calls = @ + 1]
           w == logBody(World(fs, dirs, lg, h), m, NoFault, now)
       IN  /\ fs' = w.fs
           /\ dirs' = w.dirs
           /\ lg' = w.lg
           /\ hist' = w.h
           /\ last' = Ended("log", Outcome(w))
    /\ UNCHANGED <<now, inst, mtx, pc, loc, init_mtx>>

\* the caller logs one message
EscNext == hist.calls = 0 /\ \E m \in Messages : EscLog(m)

EscSpec == EscInit /\ [][EscNext]_vars

---------------------------------------------------------------------------
(* The concurrent specification: the threads of one process call log,       *)
(* setLogDirectory and setDebugStatus on the constructed writer; a call is  *)
(* the steps of its body, taken while the caller holds Logger::mtx.         *)

\* std::lock_guard<std::mutex> lock(mtx) can be taken by thread t
CanLockUnguarded(m, t) == TRUE

CanLock(m, t) == m = 0

AllDone == \A t \in Threads : pc[t] = "done"

\* the state after getInstance constructed the writer on a fresh file; the
\* directory "d1" is absent, or holds a zero-byte file
ConcInit ==
    /\ \E fmt \in Formats,
          f \in {<<>>, Store(<<>>, <<CWD, 0>>, <<>>), Store(<<>>, <<"d1", 0>>, <<>>)} :
         LET w == Logger(World(f, {CWD} \cup {p[1] : p \in DOMAIN f},
                               Members(fmt, 1, FALSE, ""),
                               NewHist(ZeroHist, <<CWD, 0>> \in DOMAIN f, <<>>)),
                         fmt, 1, FALSE, "", NoFault, 1)
         IN  /\ fs = w.fs
             /\ dirs = w.dirs
             /\ lg = w.lg
             /\ hist = w.h
    /\ now = 1
    /\ inst = "live"
    /\ IdleThreads
    /\ last = Ended("getInstance", "ok")

\* a call enters its body: the lock_guard is constructed
Lock(t, op) ==
    /\ pc[t] = "idle"
    /\ CanLock(mtx, t)
    /\ mtx' = t
    /\ loc' = [loc EXCEPT ![t] = op]
    /\ hist' = [hist EXCEPT !.order = Append(@, t)]

\* the call returns or throws: the lock_guard is destroyed
Unlock(t) ==
    /\ mtx' = 0
    /\ pc' = [pc EXCEPT ![t] = "done"]

Apply(w) ==
    /\ fs' = w.fs
    /\ dirs' = w.dirs
    /\ lg' = w.lg
    /\ hist' = w.h

LogLock(t) ==
    /\ Lock(t, "log")
    /\ pc' = [pc EXCEPT ![t] = "prepare"]
    /\ last' = Ended("lock", "ok")
    /\ UNCHANGED <<fs, dirs, now, inst, lg, init_mtx>>

LogPrepare(t) ==
    /\ pc[t] = "prepare"
    /\ LET w == logPrepare(Called(World(fs, dirs, lg, hist), ThreadMsg(t)), NoFault, now)
       IN  /\ Apply(w)
           /\ IF w.exc
              THEN /\ Unlock(t)
                   /\ last' = Ended("log", "threw")
              ELSE /\ pc' = [pc EXCEPT ![t] = "separator"]
                   /\ last' = Ended("step", "ok")
                   /\ mtx' = mtx
    /\ UNCHANGED <<now, inst, loc, init_mtx>>

LogSeparator(t) ==
    /\ pc[t] = "separator"
    /\ Apply(logSeparator(World(fs, dirs, lg, hist)))
    /\ pc' = [pc EXCEPT ![t] = "record"]
    /\ last' = Ended("step", "ok")
    /\ UNCHANGED <<now, inst, mtx, loc, init_mtx>>

LogRecord(t) ==
    /\ pc[t] = "record"
    /\ LET w == logRecord(World(fs, dirs, lg, [hist EXCEPT !.dropped = FALSE]),
                          ThreadMsg(t))
       IN  /\ Apply(w)
           /\ last' = Ended("log", Outcome(w))
    /\ Unlock(t)
    /\ UNCHANGED <<now, inst, loc, init_mtx>>

SetDirLock(t) ==
    /\ Lock(t, "setLogDirectory")
    /\ pc' = [pc EXCEPT ![t] = "close"]
    /\ last' = Ended("lock", "ok")
    /\ UNCHANGED <<fs, dirs, now, inst, lg, init_mtx>>

\* setLogDirectory, lines 266-273; the directory argument is "d1"
SetDirClose(t) ==
    /\ pc[t] = "close"
    /\ IF lg.logDirectory # "d1"
       THEN /\ Apply(setDirClose(World(fs, dirs, lg, hist), "d1"))
            /\ pc' = [pc EXCEPT ![t] = "open"]
            /\ mtx' = mtx
       ELSE /\ Unlock(t)
            /\ UNCHANGED <<fs, dirs, lg, hist>>
    /\ last' = Ended("step", "ok")
    /\ UNCHANGED <<now, inst, loc, init_mtx>>

\* setLogDirectory, lines 275-280
SetDirOpen(t) ==
    /\ pc[t] = "open"
    /\ LET w == setDirOpen(World(fs, dirs, lg, hist), "d1", NoFault)
       IN  /\ Apply(w)
           /\ last' = Ended("setLogDirectory", Outcome(w))
    /\ Unlock(t)
    /\ UNCHANGED <<now, inst, loc, init_mtx>>

SetDebugLock(t) ==
    /\ Lock(t, "setDebugStatus")
    /\ pc' = [pc EXCEPT ![t] = "debug"]
    /\ last' = Ended("lock", "ok")
    /\ UNCHANGED <<fs, dirs, now, inst, lg, init_mtx>>

SetDebugBody(t) ==
    /\ pc[t] = "debug"
    /\ lg' = [lg EXCEPT !.debugMode = ~lg.debugMode]
    /\ last' = Ended("setDebugStatus", "ok")
    /\ Unlock(t)
    /\ UNCHANGED <<fs, dirs, now, inst, loc, hist, init_mtx>>

\* threads 1 and 2 log; thread 3 logs, changes the directory or sets the debug flag
ConcNext ==
    \E t \in Threads :
        \/ LogLock(t)
        \/ LogPrepare(t)
        \/ LogSeparator(t)
        \/ LogRecord(t)
        \/ (t = 3 /\ SetDirLock(t))
        \/ SetDirClose(t)
        \/ SetDirOpen(t)
        \/ (t = 3 /\ SetDebugLock(t))
        \/ SetDebugBody(t)

ConcSpec == ConcInit /\ [][ConcNext]_vars

---------------------------------------------------------------------------
(* getInstance called by the threads of one process, each with arguments of *)
(* its own: the call is the steps of its body, taken while the caller holds *)
(* init_mtx.  The file name and the format are the same in every call.      *)

\* static Logger instance(...): the initializer runs when control passes the
\* declaration and the static is not yet constructed
MustConstructAlways(i) == TRUE

MustConstruct(i) == i # "live"

\* the arguments of thread t's call: thread 2 asks for the console echo
InstArgs(t) == [dbg : {t = 2}, dir : LogDirs, maxMB : MaxMBs]

\* the process before its first getInstance call
InstInit == Init /\ lg.maxSizeBytes = 0

\* std::lock_guard<std::mutex> lock(init_mtx)
InstLock(t, args) ==
    /\ pc[t] = "idle"
    /\ CanLock(init_mtx, t)
    /\ init_mtx' = t
    /\ pc' = [pc EXCEPT ![t] = "static"]
    /\ loc' = [loc EXCEPT ![t] = [args |-> args, result |-> "none"]]
    /\ hist' = [hist EXCEPT !.order = Append(@, t)]
    /\ last' = Ended("lock", "ok")
    /\ UNCHANGED <<fs, dirs, now, inst, lg, mtx>>

\* static Logger instance(fname, fmt, maxMB, dbg, dir)
InstConstruct(t, flt) ==
    /\ pc[t] = "static"
    /\ IF MustConstruct(inst)
       THEN LET a == loc[t].args
                p == getFullPath(Members(lg.format, a.maxMB, a.dbg, a.dir))
                h == NewHist(Enter(hist, flt), p \in DOMAIN fs,
                             IF p \in DOMAIN fs THEN fs[p] ELSE <<>>)
                w == Logger(World(fs, dirs, lg, h), lg.format, a.maxMB, a.dbg, a.dir,
                            flt, now)
            IN  /\ fs' = w.fs
                /\ dirs' = w.dirs
                /\ hist' = [w.h EXCEPT !.order = hist.order]
                /\ IF w.exc
                   \* the exception leaves getInstance: the lock_guard is destroyed
                   \* and the static stays unconstructed
                   THEN /\ inst' = "none"
                        /\ lg' = Members(lg.format, 0, FALSE, "")
                        /\ init_mtx' = 0
                        /\ pc' = [pc EXCEPT ![t] = "done"]
                        /\ loc' = [loc EXCEPT ![t].result = "threw"]
                        /\ last' = Ended("getInstance", "threw")
                   ELSE /\ inst' = "live"
                        /\ lg' = w.lg
                        /\ init_mtx' = init_mtx
                        /\ pc' = [pc EXCEPT ![t] = "return"]
                        /\ loc' = [loc EXCEPT ![t].result = "built"]
                        /\ last' = Ended("step", Outcome(w))
       ELSE /\ pc' = [pc EXCEPT ![t] = "return"]
            /\ loc' = [loc EXCEPT ![t].result = "got"]
            /\ last' = Ended("step", "ok")
            /\ UNCHANGED <<fs, dirs, inst, init_mtx, lg, hist>>
    /\ UNCHANGED <<now, mtx>>

\* return instance
InstReturn(t) ==
    /\ pc[t] = "return"
    /\ init_mtx' = 0
    /\ pc' = [pc EXCEPT ![t] = "done"]
    /\ last' = Ended("getInstance", "ok")
    /\ UNCHANGED <<fs, dirs, now, inst, lg, mtx, loc, hist>>

InstNext ==
    \E t \in Threads :
        \/ \E args \in InstArgs(t) : InstLock(t, args)
        \/ \E flt \in FaultsFor(hist) : InstConstruct(t, flt)
        \/ InstReturn(t)

InstSpec == InstInit /\ [][InstNext]_vars

---------------------------------------------------------------------------
(* Reading a file back: a JSON array reader over the characters of a file *)

HexDigits == {HexDigit(d) : d \in 0..15}
HexVal(h) == CHOOSE d \in 0..15 : HexDigit(d) = h
\* the character of code n
CharOf(n) == IF \E c \in EscChars : Code(c) = n
             THEN CHOOSE c \in EscChars : Code(c) = n ELSE "?"

\* the length of the escape sequence that starts with the backslash at s[j];
\* 0 when there is none
EscLen(s, j) ==
    IF j + 1 > Len(s) THEN 0
    ELSE IF s[j + 1] \in {"\"", "\\", "/", "b", "f", "n", "r", "t"} THEN 2
    ELSE IF s[j + 1] = "u" /\ j + 5 <= Len(s)
              /\ \A k \in (j + 2)..(j + 5) : s[k] \in HexDigits
         THEN 6
    ELSE 0

\* the index of the quote that ends the string whose body starts at j; 0 when
\* the string does not end, holds a raw control character or a backslash that
\* starts no escape sequence
RECURSIVE StrEnd(_, _)
StrEnd(s, j) ==
    IF j > Len(s) THEN 0
    ELSE IF s[j] = "\"" THEN j
    ELSE IF Code(s[j]) < 32 THEN 0
    ELSE IF s[j] = "\\"
         THEN IF EscLen(s, j) > 0 THEN StrEnd(s, j + EscLen(s, j)) ELSE 0
    ELSE StrEnd(s, j + 1)

RECURSIVE Unescape(_)
Unescape(s) ==
    IF s = <<>> THEN <<>>
    ELSE IF Head(s) = "\\" /\ EscLen(s, 1) = 6
         THEN <<CharOf(4096 * HexVal(s[3]) + 256 * HexVal(s[4])
                       + 16 * HexVal(s[5]) + HexVal(s[6]))>>
              \o Unescape(SubSeq(s, 7, Len(s)))
    ELSE IF Head(s) = "\\" /\ Len(s) >= 2
         THEN <<CASE s[2] = "n" -> "\n" [] s[2] = "t" -> "\t" [] s[2] = "r" -> "CR"
                  [] s[2] = "b" -> "BS" [] s[2] = "f" -> "FF" [] OTHER -> s[2]>>
              \o Unescape(Tail(Tail(s)))
    ELSE <<Head(s)>> \o Unescape(Tail(s))

\* The reader's states: "start" (nothing read), "empty" ('[' read, no element),
\* "elems" (an element read), "comma" (a ',' read after an element), "closed"
\* (the ']' read), "bad" (not a prefix of any JSON array of objects).
RECURSIVE Scan(_, _, _, _)
Scan(s, i, st, acc) ==
    IF i > Len(s) \/ st = "bad" THEN [state |-> st, elems |-> acc]
    ELSE LET c == s[i]
         IN  IF c = "\n" THEN Scan(s, i + 1, st, acc)
             ELSE IF st = "start"
                  THEN Scan(s, i + 1, IF c = "[" THEN "empty" ELSE "bad", acc)
             ELSE IF st \in {"empty", "comma"} /\ c = "{"
                  THEN LET e == IF i + 1 <= Len(s) /\ s[i + 1] = "\""
                                THEN StrEnd(s, i + 2) ELSE 0
                       IN  IF e > 0 /\ e + 1 <= Len(s) /\ s[e + 1] = "}"
                           THEN Scan(s, e + 2, "elems",
                                     Append(acc, Unescape(SubSeq(s, i + 2, e - 1))))
                           ELSE [state |-> "bad", elems |-> acc]
             ELSE IF st = "empty" /\ c = "]" THEN Scan(s, i + 1, "closed", acc)
             ELSE IF st = "elems" /\ c = "," THEN Scan(s, i + 1, "comma", acc)
             ELSE IF st = "elems" /\ c = "]" THEN Scan(s, i + 1, "closed", acc)
             ELSE [state |-> "bad", elems |-> acc]

ReadJson(s) == Scan(s, 1, "start", <<>>)

\* a single valid JSON array
IsArray(s) == ReadJson(s).state = "closed"
\* an array still open: "[\n", then complete objects separated by single commas
IsOpenArray(s) ==
    /\ Len(s) >= 2 /\ s[1] = "[" /\ s[2] = "\n"
    /\ ReadJson(s).state \in {"empty", "elems"}

\* the lines of a text file: each "T", the message, a newline
RECURSIVE ReadTxt(_)
ReadTxt(s) ==
    IF Len(s) >= 3 /\ s[1] = "T" /\ s[3] = "\n"
    THEN <<<<s[2]>>>> \o ReadTxt(SubSeq(s, 4, Len(s)))
    ELSE <<>>

RECURSIVE IsTxt(_)
IsTxt(s) ==
    \/ s = <<>>
    \/ Len(s) >= 3 /\ s[1] = "T" /\ s[3] = "\n" /\ IsTxt(SubSeq(s, 4, Len(s)))

ActivePath == getFullPath(lg)
Rotated == {p \in DOMAIN fs : p[2] > 0}
IsJson == lg.format = "JSON"

FileRecords(c) == IF IsJson THEN ReadJson(c).elems ELSE ReadTxt(c)
\* every record of the file is whole and apart from the others
RecordsWhole(c) == IF IsJson THEN ReadJson(c).state # "bad" ELSE IsTxt(c)

\* the records of directory d: its rotated files from timestamp ts on, oldest
\* first, then its active file
RECURSIVE DirRecordsFrom(_, _)
DirRecordsFrom(d, ts) ==
    IF ts > MaxTime
    THEN IF <<d, 0>> \in DOMAIN fs THEN FileRecords(fs[<<d, 0>>]) ELSE <<>>
    ELSE (IF <<d, ts>> \in DOMAIN fs THEN FileRecords(fs[<<d, ts>>]) ELSE <<>>)
         \o DirRecordsFrom(d, ts + 1)

DirRecords(d) == DirRecordsFrom(d, 1)

\* the messages of the log calls among the calls of threads ts, in that order
RECURSIVE MsgsOf(_)
MsgsOf(ts) ==
    IF ts = <<>> THEN <<>>
    ELSE (IF loc[Head(ts)] = "log" THEN <<ThreadMsg(Head(ts))>> ELSE <<>>)
         \o MsgsOf(Tail(ts))

\* the threads that acquired the mutex before / after thread t did
Before(t) == SubSeq(hist.order, 1, (CHOOSE i \in 1..Len(hist.order) : hist.order[i] = t) - 1)
After(t) == SubSeq(hist.order, (CHOOSE i \in 1..Len(hist.order) : hist.order[i] = t) + 1,
                   Len(hist.order))

InLog(t) == pc[t] \in {"prepare", "separator", "record"}
InBody(t) == pc[t] \notin {"idle", "done"}

\* the writer of this lifetime started on an absent or zero-byte file
FreshStart == ~hist.existed \/ hist.start = <<>>
\* no rotation was triggered and the directory was never changed
Undisturbed == hist.rotations = 0 /\ hist.moves = 0

---------------------------------------------------------------------------
(* The claims *)

\* C1: a JSON writer started on an absent or zero-byte file, after log calls
\* that never trigger rotation and then its destruction, leaves a single valid
\* JSON array (objects separated by exactly one comma) whose elements are the
\* written records in call order.
C1_FreshFileIsArrayOfRecords ==
    (inst = "destroyed" /\ IsJson /\ FreshStart /\ Undisturbed)
        => /\ ActivePath \in DOMAIN fs
           /\ IsArray(fs[ActivePath])
           /\ ReadJson(fs[ActivePath]).elems = hist.called

C1_Witness ==
    /\ inst = "destroyed" /\ IsJson /\ FreshStart /\ Undisturbed
    /\ Len(hist.called) >= 4

\* C2: restart round trip: a JSON writer over a file that a closed writer left
\* finalized (last byte ']', N records), after writing and being closed, leaves
\* a valid JSON array with the N records and the new ones; no ']' remains before
\* the new entries.
C2_RestartRoundTrip ==
    (/\ inst = "destroyed" /\ IsJson /\ Undisturbed /\ hist.faults = 0
     /\ hist.existed /\ IsArray(hist.start) /\ Last(hist.start) = "]")
        => /\ IsArray(fs[ActivePath])
           /\ ReadJson(fs[ActivePath]).elems
                = ReadJson(hist.start).elems \o hist.called

\* C3: envelope invariant: between public operations, while the handle of a JSON
\* writer is open, the active file begins with "[\n", holds complete objects
\* separated by single commas and no closing ']'.
C3_EnvelopeOpenWhileHandleOpen ==
    (inst = "live" /\ IsJson /\ lg.open) => IsOpenArray(fs[lg.hpath])

\* C4: a rotation finalizes the envelope before it closes and renames the file:
\* every rotated JSON file is a closed, valid JSON array.
C4_RotatedFilesAreClosedArrays ==
    IsJson => \A p \in Rotated : IsArray(fs[p])

\* C5: the log call that finds the active JSON file at its size limit for the
\* first time leaves exactly one rotated file holding the old content and a
\* fresh active file "[\n" followed by the new record with no leading comma;
\* the records of the two files are as many as the records written.
C5_FirstRotation ==
    [][(/\ IsJson /\ FreshStart /\ Undisturbed /\ Rotated = {}
        /\ last'.op = "log" /\ last'.outcome = "ok"
        /\ hist'.rotations = 1)
          => LET old == ActivePath
                 rot == <<old[1], now>>
             IN  /\ DOMAIN fs' = (DOMAIN fs) \cup {rot}
                 /\ fs'[rot] = fs[old]
                 /\ fs'[old] = <<"[", "\n">> \o serialize(lg, MsgOf(hist'.calls))
                 /\ ReadJson(fs'[old]).state = "elems"
                 /\ Len(ReadJson(fs'[rot]).elems) + Len(ReadJson(fs'[old]).elems)
                      = Len(hist'.called)]_vars

C5_Witness ==
    /\ IsJson /\ FreshStart /\ hist.moves = 0 /\ hist.rotations = 1
    /\ last.op = "log" /\ last.outcome = "ok"
    /\ Cardinality(Rotated) = 1
    /\ \E p \in Rotated : Len(ReadJson(fs[p]).elems) >= 2

\* C6: a rotation whose target name already exists fails with an error to the
\* caller of log, and a rotated file is never overwritten.
C6_RotatedFilesNeverOverwritten ==
    [][/\ \A p \in Rotated : p \in DOMAIN fs' /\ fs'[p] = fs[p]
       /\ (/\ last'.op = "log" /\ lg.open
           /\ hist'.rotations = hist.rotations + 1
           /\ <<ActivePath[1], now>> \in DOMAIN fs)
            => last'.outcome = "threw"]_vars

\* C9: a log call never returns normally without having appended its record.
C9_NoLogReturnsWithoutWriting ==
    last.op = "log" => last.outcome \in {"ok", "threw"}

\* C10: when the log file cannot be opened during construction, no writer is
\* produced: getInstance never hands out a writer without an open file.
C10_NoWriterWithoutOpenFile ==
    (last.op = "getInstance" /\ inst = "live") => lg.open

\* C7: under any interleaving of concurrent log calls, the rotation check, the
\* rotation, the serialization and the append of one call form one critical
\* section; the files hold every record, whole and not interleaved with another,
\* in the order in which the calls acquired the mutex.
C7_RecordsInLockOrder ==
    /\ \A t, u \in Threads : (InBody(t) /\ InBody(u)) => t = u
    /\ \A p \in DOMAIN fs : RecordsWhole(fs[p])
    /\ (AllDone /\ \A t \in Threads : loc[t] = "log")
         => DirRecords(CWD) = <<DirMsg, InitMsg>> \o MsgsOf(hist.order)

C7_Witness ==
    /\ AllDone /\ IsJson /\ hist.rotations = 1
    /\ \A t \in Threads : loc[t] = "log"
    /\ hist.order = <<2, 3, 1>>

\* C8: setLogDirectory, setDebugStatus and log exclude one another: no log runs
\* between the close of the old file and the open of the new one, no record is
\* written to a closed handle or dropped, and every log call appends its whole
\* record to the old directory's file (calls before the change) or to the new
\* directory's file (calls after it).
C8_DirectoryChangeIsAtomic ==
    /\ \A t \in Threads : InLog(t) => (lg.open /\ \A u \in Threads : ~InBody(u) \/ u = t)
    /\ \A t \in Threads : pc[t] \in {"close", "open", "debug"}
                            => \A u \in Threads : ~InBody(u) \/ u = t
    /\ ~hist.dropped /\ last.outcome = "ok"
    /\ (AllDone /\ loc[3] = "setLogDirectory")
         => /\ DirRecords(CWD) = <<DirMsg, InitMsg>> \o MsgsOf(Before(3))
            /\ DirRecords("d1") = MsgsOf(After(3))
            /\ \A p \in DOMAIN fs : RecordsWhole(fs[p])

C8_Witness ==
    /\ AllDone /\ IsJson /\ loc[3] = "setLogDirectory"
    /\ hist.order = <<1, 3, 2>>
    /\ DirRecords("d1") = <<ThreadMsg(2)>>

\* C11: setLogDirectory(new_dir), new_dir not the current directory, on a JSON
\* writer whose handle is open, appends "\n]" exactly once to the file it leaves
\* behind and closes it before it opens the new one; where the call returns, the
\* handle is open on the new directory's file and firstJsonEntry is re-derived
\* from that file: an absent or zero-byte file becomes "[\n" with firstJsonEntry
\* set, a file ending in ']' keeps its bytes and firstJsonEntry is cleared.
C11_DirectoryChangeFinalizesAndReseeds ==
    [][(/\ last'.op = "setLogDirectory" /\ IsJson /\ lg.open
        /\ lg'.logDirectory # lg.logDirectory /\ hist'.faults = hist.faults)
          => LET old == lg.hpath
                 new == getFullPath(lg')
                 fresh == new \notin DOMAIN fs \/ fs[new] = <<>>
             IN  /\ old # new
                 /\ fs'[old] = fs[old] \o <<"\n", "]">>
                 /\ last'.outcome = "ok"
                      => /\ lg'.open /\ lg'.hpath = new
                         /\ fresh => (fs'[new] = <<"[", "\n">> /\ lg'.firstJsonEntry)
                         /\ (~fresh /\ Last(fs[new]) = "]")
                              => /\ ~lg'.firstJsonEntry
                                 /\ SubSeq(fs'[new], 1, Len(fs[new])) = fs[new]]_vars

C11_Witness ==
    /\ last.op = "setLogDirectory" /\ last.outcome = "ok" /\ IsJson
    /\ hist.moves = 1 /\ lg.open /\ lg.hpath = <<"d1", 0>> /\ ~lg.firstJsonEntry
    /\ \E i \in 1..Len(fs[<<"d1", 0>>]) : fs[<<"d1", 0>>][i] = "]"
    /\ <<CWD, 0>> \in DOMAIN fs /\ fs[<<CWD, 0>>] # <<>> /\ Last(fs[<<CWD, 0>>]) = "]"
    /\ Len(hist.called) >= 1

\* the caller made a log call in this lifetime (the constructor's calls apart)
CallerWrote == \E i \in 1..Len(hist.called) : hist.called[i] \notin {DirMsg, InitMsg}
\* a JSON writer was constructed on an absent file and destroyed, the caller
\* having called nothing in between
ClosedUnused ==
    /\ inst = "destroyed" /\ IsJson /\ ~hist.existed /\ Undisturbed /\ ~CallerWrote

\* C12 as stated: constructing a JSON writer on an absent file and destroying
\* it without the caller writing any record leaves exactly "[\n\n]".
C12_UnusedWriterLeavesEmptyArray ==
    ClosedUnused => fs[ActivePath] = <<"[", "\n", "\n", "]">>

\* C12 amended: the file left is a valid JSON array of the constructor's own
\* records and nothing else: "[\n", the "directory created" record and ",\n"
\* when the constructor created the directory, the "Logger initialized"
\* record, "\n]"; no dangling comma.
C12_UnusedWriterLeavesConstructorRecords ==
    ClosedUnused
      => /\ ActivePath \in DOMAIN fs
         /\ hist.called \in {<<InitMsg>>, <<DirMsg, InitMsg>>}
         /\ fs[ActivePath]
              = <<"[", "\n">>
                \o (IF Len(hist.called) = 2
                    THEN serialize(lg, DirMsg) \o <<",", "\n">> ELSE <<>>)
                \o serialize(lg, InitMsg) \o <<"\n", "]">>
         /\ IsArray(fs[ActivePath])

C12_Witness ==
    /\ ClosedUnused /\ last.op = "exit"
    /\ hist.called = <<DirMsg, InitMsg>>

\* c is a finalized array followed by whitespace
FinalizedThenSpace(c) ==
    Len(c) >= 2 /\ Last(c) = "\n" /\ c[Len(c) - 1] = "]" /\ IsArray(c)
\* the records of c are the first records of directory d
KeptIn(c, d) ==
    LET old == ReadJson(c).elems
    IN  Len(DirRecords(d)) >= Len(old) /\ SubSeq(DirRecords(d), 1, Len(old)) = old

\* C13: a JSON writer opened on a finalized array followed by trailing
\* whitespace ("...\n]\n") recognizes it as finalized on its last
\* non-whitespace byte: the records of the file are preserved and the writer
\* resumes after them.
C13_TrailingWhitespaceIsFinalized ==
    (/\ last.op = "getInstance" /\ inst = "live" /\ IsJson
     /\ hist.existed /\ FinalizedThenSpace(hist.start))
        => KeptIn(hist.start, ActivePath[1])

\* the lines a writer of format l.format appends for the messages msgs
RECURSIVE Lines(_, _)
Lines(l, msgs) ==
    IF msgs = <<>> THEN <<>>
    ELSE serialize(l, Head(msgs)) \o <<"\n">> \o Lines(l, Tail(msgs))

\* C14: for the Text, Csv and Xml formats the writer is append-only: in every
\* step without rotation (construction over an existing file, log,
\* setLogDirectory, destruction) no byte already in a file is modified or
\* removed, and the bytes added are exactly, in the active file, the serialized
\* record and one newline of each log call made; nothing is added on open or
\* on close.
C14_PlainFormatsAppendOnly ==
    [][(/\ ~IsJson
        /\ hist'.rotations = IF last'.op = "getInstance" THEN 0 ELSE hist.rotations)
          => LET msgs == IF last'.outcome # "ok" THEN <<>>
                         ELSE IF last'.op = "getInstance" THEN hist'.called
                         ELSE IF last'.op = "log" THEN <<Last(hist'.called)>>
                         ELSE <<>>
                 was(p) == IF p \in DOMAIN fs THEN fs[p] ELSE <<>>
             IN  /\ DOMAIN fs \subseteq DOMAIN fs'
                 /\ \A p \in DOMAIN fs' :
                      fs'[p] = was(p) \o (IF p = getFullPath(lg') THEN Lines(lg', msgs)
                                          ELSE <<>>)]_vars

C14_Witness ==
    /\ lg.format = "XML" /\ inst = "destroyed" /\ hist.lives = 2 /\ hist.moves = 1
    /\ hist.existed /\ hist.start # <<>>
    /\ CallerWrote /\ Rotated = {}

\* C15: when no directory is supplied at construction, the directory the
\* constructor ensures exists (the default logs directory) is the directory in
\* which the active file is opened.
C15_DefaultDirectoryHoldsActiveFile ==
    (inst = "live" /\ lg.logDirectory = "" /\ hist.moves = 0 /\ lg.open)
        => /\ DefaultDir \in dirs
           /\ lg.hpath = <<DefaultDir, 0>>

\* s is the inside of a JSON string: no raw '"', no raw control character,
\* every backslash starts an escape sequence
RECURSIVE WellEscaped(_)
WellEscaped(s) ==
    IF s = <<>> THEN TRUE
    ELSE IF Head(s) = "\"" \/ Code(Head(s)) < 32 \/ Code(Head(s)) = 127 THEN FALSE
    ELSE IF Head(s) = "\\"
         THEN EscLen(s, 1) > 0 /\ WellEscaped(SubSeq(s, EscLen(s, 1) + 1, Len(s)))
    ELSE WellEscaped(Tail(s))

\* the bytes the step appends to the active file
Appended == SubSeq(fs'[ActivePath], Len(fs[ActivePath]) + 1, Len(fs'[ActivePath]))

\* C16: for every message over '"', '\', newline, tab, other control
\* characters, DEL, ']' and ordinary characters, the escaped message in the JSON
\* record holds no unescaped '"', no lone backslash and no raw control
\* character; the record is one string member, the array stays parseable, and
\* decoding the escaped text gives the message back.
C16_JsonEscapingRoundTrip ==
    [][(IsJson /\ last'.op = "log")
          => LET m == Last(hist'.called)
                 body == SubSeq(Appended, 5, Len(Appended) - 2)
             IN  /\ Appended = <<",", "\n", "{", "\"">> \o body \o <<"\"", "}">>
                 /\ WellEscaped(body)
                 /\ Unescape(body) = m
                 /\ IsOpenArray(fs'[ActivePath])
                 /\ ReadJson(fs'[ActivePath]).elems = hist'.called]_vars

C16_Witness ==
    /\ IsJson /\ last.op = "log" /\ last.outcome = "ok"
    /\ Last(hist.called) = <<"\"", "\n", "]">>
    /\ ReadJson(fs[ActivePath]).elems = <<DirMsg, InitMsg, <<"\"", "\n", "]">>>>

\* an entity reference &lt; &gt; or &amp; starts at s[i]
EntityAt(s, i) ==
    \/ i + 3 <= Len(s) /\ SubSeq(s, i, i + 3) \in {<<"&", "l", "t", ";">>, <<"&", "g", "t", ";">>}
    \/ i + 4 <= Len(s) /\ SubSeq(s, i, i + 4) = <<"&", "a", "m", "p", ";">>

\* C17: the text placed inside <message>...</message> of an Xml record holds
\* no raw '<', '>' or '&': a message cannot open or close an element.
C17_XmlMessageIsEscaped ==
    [][(lg.format = "XML" /\ last'.op = "log")
          => LET body == SubSeq(Appended, 2, Len(Appended) - 2)
             IN  \A i \in 1..Len(body) :
                    /\ body[i] \notin {"<", ">"}
                    /\ body[i] = "&" => EntityAt(body, i)]_vars

\* the threads whose getInstance call constructed the writer
Builders == {t \in Threads : pc[t] \in {"return", "done"} /\ loc[t].result = "built"}
\* the position of thread t in the order in which init_mtx was acquired
Turn(t) == CHOOSE i \in 1..Len(hist.order) : hist.order[i] = t
\* the number of records of rs that are the message m
RECURSIVE Count(_, _)
Count(rs, m) ==
    IF rs = <<>> THEN 0 ELSE (IF Head(rs) = m THEN 1 ELSE 0) + Count(Tail(rs), m)

LastRecord == serialize(lg, Last(hist.called))

\* C19 as stated: after any log call returns, the active file's size exceeds
\* maxSizeBytes by at most the size of the record that call wrote.
C19_SizeBoundedByLastRecord ==
    (last.op = "log" /\ last.outcome = "ok")
        => Len(fs[ActivePath]) <= lg.maxSizeBytes + Len(LastRecord)

\* C19 amended: a log call that enters with the handle open checks the size
\* before it writes: it appends to the file it found only when that file was
\* below maxSizeBytes, so the size ends below maxSizeBytes plus the bytes
\* appended (the record and its ",\n" separator or its newline); otherwise it
\* rotates and the active file is the fresh envelope and the record.
C19_SizeCheckedBeforeWrite ==
    [][(last'.op = "log" /\ last'.outcome = "ok" /\ lg.open)
          => LET p == ActivePath
                 rec == serialize(lg, Last(hist'.called))
             IN  IF hist'.rotations = hist.rotations
                 THEN /\ Len(fs[p]) < lg.maxSizeBytes
                      /\ fs'[p] \in {fs[p] \o rec, fs[p] \o <<",", "\n">> \o rec,
                                     fs[p] \o rec \o <<"\n">>}
                      /\ Len(fs'[p]) < lg.maxSizeBytes + Len(rec) + 2
                 ELSE /\ Len(fs[p]) >= lg.maxSizeBytes
                      /\ fs'[p] = IF IsJson THEN <<"[", "\n">> \o rec
                                  ELSE rec \o <<"\n">>]_vars

\* a JSON log call found the file one byte below the limit and appended
C19_Witness ==
    /\ last.op = "log" /\ last.outcome = "ok" /\ IsJson /\ lg.maxSizeBytes > 0
    /\ Len(fs[ActivePath]) = lg.maxSizeBytes + Len(LastRecord) + 1

\* the characters of c that are not newlines (no message of the callers
\* holds a comma: every ',' of a file is a separator)
RECURSIVE Dense(_)
Dense(c) ==
    IF c = <<>> THEN <<>>
    ELSE (IF Head(c) = "\n" THEN <<>> ELSE <<Head(c)>>) \o Dense(Tail(c))

\* a leading, doubled or trailing comma
StrayComma(c) ==
    LET d == Dense(c)
    IN  \E i \in 1..Len(d) :
           /\ d[i] = ","
           /\ \/ i = 1 \/ i = Len(d)
              \/ d[i - 1] \in {"[", ","}
              \/ d[i + 1] \in {"]", ","}

\* C20: separator rule: whenever the handle of a JSON writer is open,
\* firstJsonEntry is true exactly when the active file is "[\n" and holds no
\* record; the file never shows a leading, doubled or trailing comma.
C20_SeparatorRule ==
    (inst = "live" /\ IsJson /\ lg.open)
        => /\ lg.firstJsonEntry <=> fs[lg.hpath] = <<"[", "\n">>
           /\ ~StrayComma(fs[lg.hpath])

\* the records of msgs as log writes them: separated by ",\n"
RECURSIVE JoinRecords(_, _)
JoinRecords(l, msgs) ==
    IF msgs = <<>> THEN <<>>
    ELSE serialize(l, Head(msgs))
         \o (IF Tail(msgs) = <<>> THEN <<>> ELSE <<",", "\n">> \o JoinRecords(l, Tail(msgs)))

\* a file restarted and then written with the records of msgs
Restarted(l, msgs) == <<"[", "\n">> \o JoinRecords(l, msgs)

\* the messages of the log calls of the step, the constructor's included
NewCalled ==
    IF last'.op = "getInstance" THEN hist'.called
    ELSE SubSeq(hist'.called, Len(hist.called) + 1, Len(hist'.called))

Suffixes(s) == {SubSeq(s, i, Len(s)) : i \in 1..(Len(s) + 1)}

\* the step opened the handle on the file at path p
Opened(p) == lg'.open /\ lg'.hpath = p /\ (~lg.open \/ lg.hpath # p)

\* C21: opening an existing non-empty JSON file whose last byte is not ']'
\* applies one policy: the previous content is discarded and the file is
\* restarted as "[\n" with the writer in the first-entry state; where the call
\* returns, the file is "[\n" followed by records of that call and of nothing
\* else, and firstJsonEntry is set exactly when no record followed.  The
\* writer never appends to the unterminated content.
C21_UnterminatedFileIsRestarted ==
    [][LET p == getFullPath(lg')
       IN  (/\ IsJson /\ Opened(p)
            /\ p \in DOMAIN fs /\ fs[p] # <<>> /\ Last(fs[p]) # "]")
              => \E ms \in Suffixes(NewCalled) :
                    /\ fs'[p] = Restarted(lg', ms)
                    /\ lg'.firstJsonEntry = (ms = <<>>)]_vars

\* a writer was constructed on an unterminated array that held a record
C21_Witness ==
    /\ last.op = "getInstance" /\ last.outcome = "ok" /\ IsJson /\ lg.open
    /\ hist.existed /\ hist.start # <<>> /\ Last(hist.start) = "}"
    /\ ReadJson(hist.start).elems = <<<<"x">>>>
    /\ hist.rotations = 0
    /\ fs[ActivePath] = Restarted(lg, hist.called)
    /\ DirRecords(CWD) = hist.called

\* the only system call that has failed so far is the rename of a rotation,
\* during the log call that just threw: the handle was open when the call
\* began, is closed now, and the file that was to be rotated is still in place
AfterFailedRename ==
    /\ inst = "live" /\ ~lg.open
    /\ last.op = "log" /\ last.outcome = "threw"
    /\ hist.faults = 1 /\ hist.moves = 0
    /\ ActivePath \in DOMAIN fs

\* C22: a failed rotation never destroys data: when the rename of a rotation
\* has failed during a log call, leaving the handle closed, then after the next
\* successful log call every record that was in the active file is still in the
\* active file or in a rotated file of its directory, as many times as before.
C22_FailedRotationKeepsRecords ==
    [][(AfterFailedRename /\ last'.op = "log" /\ last'.outcome = "ok")
          => LET old == FileRecords(fs[ActivePath])
                 new == DirRecords(ActivePath[1])'
             IN  \A i \in 1..Len(old) : Count(new, old[i]) >= Count(old, old[i])]_vars

====
